---- MODULE Spec2Model ----
(***************************************************************************)
(* A model of the CPPJourney exercises.  The repository is a set of        *)
(* independent executables; a behaviour of the model is a run of one of    *)
(* them, selected by prog in the initial state.  Each program has its own  *)
(* variables, which stay at their idle value in the runs of the others.    *)
(*                                                                         *)
(* A double is a record [k, v]: k = "fin" with the integer value v (all    *)
(* magnitudes used are integers or hundredths, exactly representable),     *)
(* k = "nan", or k = "inf" with the sign v.  An optional value (the object *)
(* a throwing constructor does not produce, the value a throwing call does *)
(* not return) is a sequence of length 0 or 1.                             *)
(***************************************************************************)
EXTENDS Integers, Sequences, FiniteSets, TLC

VARIABLES prog,
          \* order_processing_system.cpp
          orders, opc, ocout, ocerr, uncaught, lastCall,
          \* Order::Order applied to one argument list
          ctorArgs, ctorRes,
          \* debug_me.cpp
          dbgNumbers, dbgI, dbgSum, dbgCout, dbgPc,
          \* ugly-after.cpp
          fmtInput, fmtNumbers, fmtCout, fmtPc,
          \* logging.cpp
          csvMarket, csvOrders, logSink, logCalls, logInitial,
          \* exercise2-cmake-project-structure main.cpp
          calcCout, calcCerr, calcPc,
          \* hello-world main.cpp
          helloCin, helloName, helloCout, helloPc,
          \* price_calculator.cpp, demonstratePointerArithmetic
          prices, volumes, slicePtr, sliceVisited, priceCout, pricePc,
          \* price_calculator.cpp, the two VWAP functions
          sampleBids, vwap1, vwap2, vwapPc,
          \* basic_markte_data.cpp
          marketData, mdI, mdRand, mdCout, mdPc

orderVars == <<orders, opc, ocout, ocerr, uncaught, lastCall>>
ctorVars == <<ctorArgs, ctorRes>>
dbgVars == <<dbgNumbers, dbgI, dbgSum, dbgCout, dbgPc>>
fmtVars == <<fmtInput, fmtNumbers, fmtCout, fmtPc>>
logVars == <<csvMarket, csvOrders, logSink, logCalls, logInitial>>
calcVars == <<calcCout, calcCerr, calcPc>>
helloVars == <<helloCin, helloName, helloCout, helloPc>>
priceVars == <<prices, volumes, slicePtr, sliceVisited, priceCout, pricePc>>
vwapVars == <<sampleBids, vwap1, vwap2, vwapPc>>
mdVars == <<marketData, mdI, mdRand, mdCout, mdPc>>
vars == <<prog, orderVars, ctorVars, dbgVars, fmtVars, logVars, calcVars, helloVars, priceVars, vwapVars, mdVars>>

\* what the steps of one program leave alone: the selection and the other
\* programs' variables
orderFrame == UNCHANGED <<prog, ctorVars, dbgVars, fmtVars, logVars, calcVars, helloVars, priceVars, vwapVars, mdVars>>
ctorFrame == UNCHANGED <<prog, orderVars, dbgVars, fmtVars, logVars, calcVars, helloVars, priceVars, vwapVars, mdVars>>
dbgFrame == UNCHANGED <<prog, orderVars, ctorVars, fmtVars, logVars, calcVars, helloVars, priceVars, vwapVars, mdVars>>
fmtFrame == UNCHANGED <<prog, orderVars, ctorVars, dbgVars, logVars, calcVars, helloVars, priceVars, vwapVars, mdVars>>
logFrame == UNCHANGED <<prog, orderVars, ctorVars, dbgVars, fmtVars, calcVars, helloVars, priceVars, vwapVars, mdVars>>
calcFrame == UNCHANGED <<prog, orderVars, ctorVars, dbgVars, fmtVars, logVars, helloVars, priceVars, vwapVars, mdVars>>
helloFrame == UNCHANGED <<prog, orderVars, ctorVars, dbgVars, fmtVars, logVars, calcVars, priceVars, vwapVars, mdVars>>
priceFrame == UNCHANGED <<prog, orderVars, ctorVars, dbgVars, fmtVars, logVars, calcVars, helloVars, vwapVars, mdVars>>
vwapFrame == UNCHANGED <<prog, orderVars, ctorVars, dbgVars, fmtVars, logVars, calcVars, helloVars, priceVars, mdVars>>
mdFrame == UNCHANGED <<prog, orderVars, ctorVars, dbgVars, fmtVars, logVars, calcVars, helloVars, priceVars, vwapVars>>

(***************************************************************************)
(* Bounds of the model.                                                    *)
(***************************************************************************)
MaxOrders == 3
MaxLookups == 2
MaxLen == 3
MaxCalls == 3
MaxSeed == 7

(***************************************************************************)
(* double                                                                  *)
(***************************************************************************)
Fin(n) == [k |-> "fin", v |-> n]
NaN == [k |-> "nan", v |-> 0]
PosInf == [k |-> "inf", v |-> 1]
NegInf == [k |-> "inf", v |-> -1]

\* a <= b on doubles: false whenever an operand is a NaN
FLe(a, b) ==
    IF a.k = "nan" \/ b.k = "nan" THEN FALSE
    ELSE IF a.k = "fin" /\ b.k = "fin" THEN a.v <= b.v
    ELSE IF a.k = "inf" /\ a.v = -1 THEN TRUE
    ELSE IF b.k = "inf" /\ b.v = 1 THEN TRUE
    ELSE FALSE

\* a > b on doubles: false whenever an operand is a NaN
FGt(a, b) ==
    IF a.k = "nan" \/ b.k = "nan" THEN FALSE
    ELSE ~FLe(a, b)

(***************************************************************************)
(* order_processing_system.cpp                                             *)
(***************************************************************************)
MARKET == "M"
LIMIT == "L"
STOP == "S"
\* the values of the enumeration, and one value of its underlying type char
\* that is none of them (static_cast<OrderType>('X'))
OrderType == {MARKET, LIMIT, STOP}
OrderTypeChars == OrderType \cup {"X"}

Throw(msg) == [threw |-> TRUE, what |-> msg, obj |-> <<>>]
Return(x) == [threw |-> FALSE, what |-> "", obj |-> <<x>>]

\* Order::Order: the members are initialised, then validated in this order;
\* a throw leaves no object.
Order(id, sym, qty, prc, type) ==
    IF type # MARKET /\ type # LIMIT /\ type # STOP
    THEN Throw("Invalid order type")
    ELSE IF FLe(prc, Fin(0))
    THEN Throw("Price must be positive")
    ELSE IF qty > 100000 \/ qty < 1
    THEN Throw("Quantity must be between 1 and 100000")
    ELSE IF Len(sym) > 8
    THEN Throw("Symbol must be 8 chars max")
    ELSE Return([orderId |-> id, symbol |-> sym, quantity |-> qty,
                 price |-> prc, orderType |-> type])

\* OrderProcessingSystem::addOrder
addOrder(os, order) == Append(os, order)

\* the range-for of getOrderById, from position i on
RECURSIVE FindById(_, _, _)
FindById(os, id, i) ==
    IF i > Len(os) THEN Throw("Order not found")
    ELSE IF os[i].orderId = id THEN Return(os[i])
    ELSE FindById(os, id, i + 1)

\* getOrderById returning the latest-added match instead of the earliest
RECURSIVE FindByIdBackwards(_, _, _)
FindByIdBackwards(os, id, i) ==
    IF i < 1 THEN Throw("Order not found")
    ELSE IF os[i].orderId = id THEN Return(os[i])
    ELSE FindByIdBackwards(os, id, i - 1)

getOrderByIdLatest(os, id) == FindByIdBackwards(os, id, Len(os))

\* OrderProcessingSystem::getOrderById
getOrderById(os, id) == FindById(os, id, 1)

\* the range-for of getOrderBySymbol, from position i on
RECURSIVE FindBySymbol(_, _, _)
FindBySymbol(os, symbol, i) ==
    IF i > Len(os) THEN Throw("Order not found")
    ELSE IF os[i].symbol = symbol THEN Return(os[i])
    ELSE FindBySymbol(os, symbol, i + 1)

\* OrderProcessingSystem::getOrderBySymbol
getOrderBySymbol(os, symbol) == FindBySymbol(os, symbol, 1)

\* OrderProcessingSystem::executeOrder: the line it prints
executeOrder(order) ==
    CASE order.orderType = MARKET ->
           <<order.orderId, order.symbol, order.quantity, order.price, "Market">>
      [] order.orderType = LIMIT ->
           <<order.orderId, order.symbol, order.quantity, order.price, "Limit">>
      [] order.orderType = STOP ->
           <<order.orderId, order.symbol, order.quantity, order.price, "Stop">>
      [] OTHER -> <<"Invalid order type">>

\* The argument lists of the Order constructions of populateOrders: its three
\* literal ones, and others a caller of the same classes can pass.
PopulateArgs ==
    { <<1, "AAPL", 100, Fin(150), MARKET>>,
      <<2, "GOOG", 200, Fin(2500), LIMIT>>,
      <<3, "MSFT", 300, Fin(350), STOP>>,
      <<1, "GOOG", 1, Fin(1), STOP>>,
      <<2, "AAPL", 100000, NaN, MARKET>>,
      <<3, "AAPL", 0, Fin(150), MARKET>>,
      <<3, "ABCDEFGHI", 5, Fin(150), LIMIT>> }
LookupIds == {1, 2, 3, 4}
LookupSymbols == {"AAPL", "MSFT", "IBM"}

NoCall == [op |-> "none", arg |-> <<>>, res |-> Throw(""), before |-> <<>>]

OrderIdle ==
    /\ orders = <<>>
    /\ opc = "idle"
    /\ ocout = <<>>
    /\ ocerr = <<>>
    /\ uncaught = ""
    /\ lastCall = NoCall

\* main: OrderProcessingSystem orderProcessingSystem;
OrderInit ==
    /\ orders = <<>>
    /\ opc = "populate"
    /\ ocout = <<>>
    /\ ocerr = <<>>
    /\ uncaught = ""
    /\ lastCall = NoCall

\* populateOrders: one addOrder(Order(...)).  Nothing in populateOrders or in
\* main catches: an exception of the constructor leaves main.
PopulateOrder(a) ==
    /\ prog = "order" /\ opc = "populate"
    /\ Len(orders) < MaxOrders
    /\ LET r == Order(a[1], a[2], a[3], a[4], a[5]) IN
         /\ lastCall' = [op |-> "Order", arg |-> <<a>>, res |-> r, before |-> orders]
         /\ IF r.threw
            THEN /\ opc' = "terminated"
                 /\ uncaught' = r.what
                 /\ UNCHANGED orders
            ELSE /\ orders' = addOrder(orders, r.obj[1])
                 /\ UNCHANGED <<opc, uncaught>>
    /\ UNCHANGED <<ocout, ocerr>>
    /\ orderFrame

\* populateOrders returns
PopulateDone ==
    /\ prog = "order" /\ opc = "populate"
    /\ opc' = "lookup"
    /\ UNCHANGED <<orders, ocout, ocerr, uncaught, lastCall>>
    /\ orderFrame

\* main: orderProcessingSystem.executeOrder(orderProcessingSystem.getOrderById(id));
LookupById(id) ==
    /\ prog = "order" /\ opc = "lookup"
    /\ Len(ocout) < MaxLookups
    /\ LET r == getOrderById(orders, id) IN
         /\ lastCall' = [op |-> "getOrderById", arg |-> <<id>>, res |-> r,
                         before |-> orders]
         /\ IF r.threw
            THEN /\ opc' = "terminated"
                 /\ uncaught' = r.what
                 /\ UNCHANGED ocout
            ELSE /\ ocout' = Append(ocout, executeOrder(r.obj[1]))
                 /\ UNCHANGED <<opc, uncaught>>
    /\ UNCHANGED <<orders, ocerr>>
    /\ orderFrame

\* the same statement with getOrderBySymbol
LookupBySymbol(symbol) ==
    /\ prog = "order" /\ opc = "lookup"
    /\ Len(ocout) < MaxLookups
    /\ LET r == getOrderBySymbol(orders, symbol) IN
         /\ lastCall' = [op |-> "getOrderBySymbol", arg |-> <<symbol>>, res |-> r,
                         before |-> orders]
         /\ IF r.threw
            THEN /\ opc' = "terminated"
                 /\ uncaught' = r.what
                 /\ UNCHANGED ocout
            ELSE /\ ocout' = Append(ocout, executeOrder(r.obj[1]))
                 /\ UNCHANGED <<opc, uncaught>>
    /\ UNCHANGED <<orders, ocerr>>
    /\ orderFrame

\* main: return 0;
OrderMainReturn ==
    /\ prog = "order" /\ opc = "lookup"
    /\ opc' = "exit0"
    /\ UNCHANGED <<orders, ocout, ocerr, uncaught, lastCall>>
    /\ orderFrame

OrderNext ==
    \/ \E a \in PopulateArgs : PopulateOrder(a)
    \/ PopulateDone
    \/ \E id \in LookupIds : LookupById(id)
    \/ \E s \in LookupSymbols : LookupBySymbol(s)
    \/ OrderMainReturn

(***************************************************************************)
(* Order::Order as a function of its arguments                             *)
(***************************************************************************)
CtorIds == {1, 2}
CtorSymbols == {"", "AAPL", "ABCDEFGH", "ABCDEFGHI"}
CtorQuantities == {-1, 0, 1, 100, 100000, 100001}
CtorPrices == {NegInf, Fin(-1), Fin(0), Fin(1), Fin(150), PosInf, NaN}

CtorIdle ==
    /\ ctorArgs = <<>>
    /\ ctorRes = <<>>

CtorInit ==
    /\ ctorArgs \in CtorIds \X CtorSymbols \X CtorQuantities \X CtorPrices
                    \X OrderTypeChars
    /\ ctorRes = <<>>

\* Order(id, symbol, quantity, price, type)
Construct ==
    /\ prog = "ctor" /\ ctorRes = <<>>
    /\ ctorRes' = <<Order(ctorArgs[1], ctorArgs[2], ctorArgs[3], ctorArgs[4],
                          ctorArgs[5])>>
    /\ UNCHANGED ctorArgs
    /\ ctorFrame

(***************************************************************************)
(* debug_me.cpp                                                            *)
(***************************************************************************)
\* the sequences over S of length at most n
SeqsUpTo(S, n) == UNION {[1..k -> S] : k \in 0..n}

\* main's vector, and other vectors calculateSum can be given
DbgValues == {-1, 2}
DbgInputs == SeqsUpTo(DbgValues, MaxLen) \cup {<<1, 2, 3, 4, 5>>}

\* What a read of numbers[numbers.size()] can yield: the vector owns no such
\* element, so the value is whatever the memory after the buffer holds.  The
\* other outcome of the read, a fault, is DbgFault.  The values are small: no
\* sum of the model leaves the range of int.
Garbage == {-7, 0, 42}

DbgIdle ==
    /\ dbgNumbers = <<>>
    /\ dbgI = 0
    /\ dbgSum = 0
    /\ dbgCout = <<>>
    /\ dbgPc = "idle"

\* main: std::vector<int> data = {...};
DbgInit ==
    /\ dbgNumbers \in DbgInputs
    /\ dbgI = 0
    /\ dbgSum = 0
    /\ dbgCout = <<>>
    /\ dbgPc = "main"

\* main: prints the data, then calls calculateSum: int sum = 0; size_t i = 0
DbgCall ==
    /\ prog = "dbg" /\ dbgPc = "main"
    /\ dbgCout' = <<<<"Calculating sum of", dbgNumbers>>>>
    /\ dbgI' = 0
    /\ dbgSum' = 0
    /\ dbgPc' = "loop"
    /\ UNCHANGED dbgNumbers
    /\ dbgFrame

\* the loop condition with i < numbers.size()
LoopCondStrict(idx, size) == idx < size

\* the loop condition of calculateSum: i <= numbers.size()
LoopCond(idx, size) == idx <= size

\* one iteration at an index the vector has: sum += numbers[i]; the line
\* printed; i++
DbgIterate ==
    /\ prog = "dbg" /\ dbgPc = "loop"
    /\ LoopCond(dbgI, Len(dbgNumbers))
    /\ dbgI < Len(dbgNumbers)
    /\ LET x == dbgNumbers[dbgI + 1] IN
         /\ dbgSum' = dbgSum + x
         /\ dbgCout' = Append(dbgCout, <<"Adding", x, dbgI>>)
    /\ dbgI' = dbgI + 1
    /\ UNCHANGED <<dbgNumbers, dbgPc>>
    /\ dbgFrame

\* one iteration at an index the vector does not have, the read yielding g
DbgIterateOutside(g) ==
    /\ prog = "dbg" /\ dbgPc = "loop"
    /\ LoopCond(dbgI, Len(dbgNumbers))
    /\ dbgI >= Len(dbgNumbers)
    /\ dbgSum' = dbgSum + g
    /\ dbgCout' = Append(dbgCout, <<"Adding", g, dbgI>>)
    /\ dbgI' = dbgI + 1
    /\ UNCHANGED <<dbgNumbers, dbgPc>>
    /\ dbgFrame

\* the same iteration, the read faulting: the program is killed at the read
DbgFault ==
    /\ prog = "dbg" /\ dbgPc = "loop"
    /\ LoopCond(dbgI, Len(dbgNumbers))
    /\ dbgI >= Len(dbgNumbers)
    /\ dbgPc' = "crashed"
    /\ UNCHANGED <<dbgNumbers, dbgI, dbgSum, dbgCout>>
    /\ dbgFrame

\* the loop ends; return sum; main prints it and returns 0
DbgReturn ==
    /\ prog = "dbg" /\ dbgPc = "loop"
    /\ ~LoopCond(dbgI, Len(dbgNumbers))
    /\ dbgCout' = Append(dbgCout, <<"Sum", dbgSum>>)
    /\ dbgPc' = "exit0"
    /\ UNCHANGED <<dbgNumbers, dbgI, dbgSum>>
    /\ dbgFrame

DbgNext ==
    \/ DbgCall
    \/ DbgIterate
    \/ \E g \in Garbage : DbgIterateOutside(g)
    \/ DbgFault
    \/ DbgReturn

(***************************************************************************)
(* ugly-after.cpp                                                          *)
(***************************************************************************)
\* main's vector, and other vectors
FmtInputs == SeqsUpTo(1..3, MaxLen) \cup {<<3, 1, 4, 1, 5, 9, 2, 6>>}

\* x put into the sorted sequence s, after the elements not greater than it
RECURSIVE Insert(_, _)
Insert(s, x) ==
    IF s = <<>> THEN <<x>>
    ELSE IF x < Head(s) THEN <<x>> \o s
    ELSE <<Head(s)>> \o Insert(Tail(s), x)

RECURSIVE InsertAll(_, _)
InsertAll(sorted, rest) ==
    IF rest = <<>> THEN sorted
    ELSE InsertAll(Insert(sorted, Head(rest)), Tail(rest))

\* a sort that drops the elements equal to one already placed
RECURSIVE InsertAllUnique(_, _)
InsertAllUnique(sorted, rest) ==
    IF rest = <<>> THEN sorted
    ELSE IF \E k \in 1..Len(sorted) : sorted[k] = Head(rest)
    THEN InsertAllUnique(sorted, Tail(rest))
    ELSE InsertAllUnique(Insert(sorted, Head(rest)), Tail(rest))

StdSortUnique(s) == InsertAllUnique(<<>>, s)

\* std::sort(numbers.begin(), numbers.end()) with operator<
StdSort(s) == InsertAll(<<>>, s)

FmtIdle ==
    /\ fmtInput = <<>>
    /\ fmtNumbers = <<>>
    /\ fmtCout = <<>>
    /\ fmtPc = "idle"

\* main: std::vector<int> numbers = {...};  fmtInput keeps the initialiser
FmtInit ==
    /\ fmtInput \in FmtInputs
    /\ fmtNumbers = fmtInput
    /\ fmtCout = <<>>
    /\ fmtPc = "sort"

\* std::sort(numbers.begin(), numbers.end());
FmtSort ==
    /\ prog = "fmt" /\ fmtPc = "sort"
    /\ fmtNumbers' = StdSort(fmtNumbers)
    /\ fmtPc' = "print"
    /\ UNCHANGED <<fmtInput, fmtCout>>
    /\ fmtFrame

\* for (int n : numbers) std::cout << n << " ";  one element
FmtPrint ==
    /\ prog = "fmt" /\ fmtPc = "print"
    /\ Len(fmtCout) < Len(fmtNumbers)
    /\ fmtCout' = Append(fmtCout, fmtNumbers[Len(fmtCout) + 1])
    /\ UNCHANGED <<fmtInput, fmtNumbers, fmtPc>>
    /\ fmtFrame

\* std::cout << std::endl; return 0;
FmtReturn ==
    /\ prog = "fmt" /\ fmtPc = "print"
    /\ Len(fmtCout) = Len(fmtNumbers)
    /\ fmtPc' = "exit0"
    /\ UNCHANGED <<fmtInput, fmtNumbers, fmtCout>>
    /\ fmtFrame

FmtNext ==
    \/ FmtSort
    \/ FmtPrint
    \/ FmtReturn

(***************************************************************************)
(* logging.cpp: MarketLogger.  A CSV file is the sequence of its rows, a   *)
(* row the tuple of the values written to it; logSink is what the spdlog   *)
(* logger has been given (console and <log_directory>.log).  What the      *)
(* environment does to a call is its outcome: "ok"; "open_fails", the      *)
(* std::ofstream is not open after its construction; "throws", a statement *)
(* of the try block before the file is opened raises a std::exception.  A  *)
(* row written to an open file reaches the file.                           *)
(***************************************************************************)
Outcomes == {"ok", "open_fails", "throws"}
LogTimestamps == {1, 2}
\* main's two orders
LogOrders == { <<1001, "AAPL", 500, 15050, "B">>, <<1002, "AAPL", 300, 15100, "S">> }
\* rows a file can hold before the program starts
OldRow == <<0, 0, 0, "OLD">>

LogIdle ==
    /\ csvMarket = <<>>
    /\ csvOrders = <<>>
    /\ logSink = <<>>
    /\ logCalls = <<>>
    /\ logInitial = <<>>

\* MarketLogger::MarketLogger: the sinks are created, one line is logged; the
\* CSV files are as an earlier run left them
LogInit ==
    /\ logInitial \in {<<<<>>, <<>>>>, <<<<OldRow>>, <<OldRow, OldRow>>>>}
    /\ csvMarket = logInitial[1]
    /\ csvOrders = logInitial[2]
    /\ logSink = <<<<"info", "MarketLogger initialized">>>>
    /\ logCalls = <<>>

\* std::ofstream(path, std::ios::trunc): the file is emptied
OpenTrunc(file) == <<>>

\* std::ofstream(path, std::ios::app): the rows stay, writes go after them
OpenAppend(file) == file

\* MarketLogger::log_market_data
log_market_data(symbol, price, volume, timestamp, outcome) ==
    /\ prog = "log" /\ Len(logCalls) < MaxCalls
    /\ LET row == <<timestamp, price, volume, symbol>> IN
       CASE outcome = "throws" ->
              /\ logSink' = Append(logSink, <<"error", "Exception in log_market_data">>)
              /\ logCalls' = Append(logCalls, [op |-> "log_market_data", row |-> row,
                                               outcome |-> outcome, ret |-> FALSE])
              /\ UNCHANGED csvMarket
         [] outcome = "open_fails" ->
              /\ logSink' = logSink \o <<<<"info", "Market Data">>,
                                         <<"error", "Failed to open CSV file for market data">>>>
              /\ logCalls' = Append(logCalls, [op |-> "log_market_data", row |-> row,
                                               outcome |-> outcome, ret |-> FALSE])
              /\ UNCHANGED csvMarket
         [] outcome = "ok" ->
              /\ logSink' = Append(logSink, <<"info", "Market Data">>)
              /\ csvMarket' = Append(OpenAppend(csvMarket), row)
              /\ logCalls' = Append(logCalls, [op |-> "log_market_data", row |-> row,
                                               outcome |-> outcome, ret |-> TRUE])
    /\ UNCHANGED <<csvOrders, logInitial>>
    /\ logFrame

\* MarketLogger::log_order
log_order(order_id, symbol, quantity, price, order_type, outcome) ==
    /\ prog = "log" /\ Len(logCalls) < MaxCalls
    /\ LET row == <<order_id, symbol, quantity, price, order_type>>
           type_str == IF order_type = "B" THEN "BUY" ELSE "SELL"
       IN
       CASE outcome = "throws" ->
              /\ logSink' = Append(logSink, <<"error", "Exception in log_order">>)
              /\ logCalls' = Append(logCalls, [op |-> "log_order", row |-> row,
                                               outcome |-> outcome, ret |-> FALSE])
              /\ UNCHANGED csvOrders
         [] outcome = "open_fails" ->
              /\ logSink' = logSink \o <<<<"info", "Order " \o type_str>>,
                                         <<"error", "Failed to open CSV file for orders">>>>
              /\ logCalls' = Append(logCalls, [op |-> "log_order", row |-> row,
                                               outcome |-> outcome, ret |-> FALSE])
              /\ UNCHANGED csvOrders
         [] outcome = "ok" ->
              /\ logSink' = Append(logSink, <<"info", "Order " \o type_str>>)
              /\ csvOrders' = Append(OpenAppend(csvOrders), row)
              /\ logCalls' = Append(logCalls, [op |-> "log_order", row |-> row,
                                               outcome |-> outcome, ret |-> TRUE])
    /\ UNCHANGED <<csvMarket, logInitial>>
    /\ logFrame

\* MarketLogger::log_description: no CSV file is touched
log_description(description, outcome) ==
    /\ prog = "log" /\ Len(logCalls) < MaxCalls
    /\ outcome # "open_fails"
    /\ IF outcome = "throws"
       THEN /\ logSink' = Append(logSink, <<"error", "Exception in log_description">>)
            /\ logCalls' = Append(logCalls, [op |-> "log_description", row |-> <<>>,
                                             outcome |-> outcome, ret |-> FALSE])
       ELSE /\ logSink' = Append(logSink, <<"info", "Description">>)
            /\ logCalls' = Append(logCalls, [op |-> "log_description", row |-> <<>>,
                                             outcome |-> outcome, ret |-> TRUE])
    /\ UNCHANGED <<csvMarket, csvOrders, logInitial>>
    /\ logFrame

LogNext ==
    \/ \E t \in LogTimestamps, o \in Outcomes :
          log_market_data("AAPL", 15075, 1000, t, o)
    \/ \E a \in LogOrders, o \in Outcomes :
          log_order(a[1], a[2], a[3], a[4], a[5], o)
    \/ \E o \in Outcomes : log_description("Market session started", o)

(***************************************************************************)
(* exercise2-cmake-project-structure: main.cpp.  The Calculator class is   *)
(* declared in calculator.h; its four operations are written from the      *)
(* description of the exercise: add(1,2) is 3, dividing by zero raises an  *)
(* invalid-argument failure.                                               *)
(***************************************************************************)
add(a, b) == [threw |-> FALSE, type |-> "", what |-> "", obj |-> <<a + b>>]
subtract(a, b) == [threw |-> FALSE, type |-> "", what |-> "", obj |-> <<a - b>>]
multiply(a, b) == [threw |-> FALSE, type |-> "", what |-> "", obj |-> <<a * b>>]
divide(a, b) ==
    IF b = 0
    THEN [threw |-> TRUE, type |-> "std::invalid_argument",
          what |-> "Division by zero", obj |-> <<>>]
    ELSE [threw |-> FALSE, type |-> "", what |-> "", obj |-> <<a \div b>>]

CalcIdle ==
    /\ calcCout = <<>>
    /\ calcCerr = <<>>
    /\ calcPc = "idle"

\* main: Calculator calculator;
CalcInit ==
    /\ calcCout = <<>>
    /\ calcCerr = <<>>
    /\ calcPc = "add"

\* a handler that matches no exception divide raises
CatchesNothing(e) == FALSE

\* catch (const std::invalid_argument& e)
Catches(e) == e.type = "std::invalid_argument"

\* std::cout << calculator.add(1, 2) << std::endl;
CalcAdd ==
    /\ prog = "calc" /\ calcPc = "add"
    /\ calcCout' = Append(calcCout, add(1, 2).obj[1])
    /\ calcPc' = "subtract"
    /\ UNCHANGED calcCerr
    /\ calcFrame

\* std::cout << calculator.subtract(1, 2) << std::endl;
CalcSubtract ==
    /\ prog = "calc" /\ calcPc = "subtract"
    /\ calcCout' = Append(calcCout, subtract(1, 2).obj[1])
    /\ calcPc' = "multiply"
    /\ UNCHANGED calcCerr
    /\ calcFrame

\* std::cout << calculator.multiply(1, 2) << std::endl;
CalcMultiply ==
    /\ prog = "calc" /\ calcPc = "multiply"
    /\ calcCout' = Append(calcCout, multiply(1, 2).obj[1])
    /\ calcPc' = "divide"
    /\ UNCHANGED calcCerr
    /\ calcFrame

\* try { std::cout << calculator.divide(1, 0) << std::endl; } catch ...
CalcDivide ==
    /\ prog = "calc" /\ calcPc = "divide"
    /\ LET r == divide(1, 0) IN
         IF ~r.threw
         THEN /\ calcCout' = Append(calcCout, r.obj[1])
              /\ calcPc' = "return"
              /\ UNCHANGED calcCerr
         ELSE IF Catches(r)
         THEN /\ calcCerr' = Append(calcCerr, <<"Error: ", r.what>>)
              /\ calcPc' = "return"
              /\ UNCHANGED calcCout
         ELSE /\ calcPc' = "terminated"
              /\ UNCHANGED <<calcCout, calcCerr>>
    /\ calcFrame

\* return 0;
CalcReturn ==
    /\ prog = "calc" /\ calcPc = "return"
    /\ calcPc' = "exit0"
    /\ UNCHANGED <<calcCout, calcCerr>>
    /\ calcFrame

CalcNext ==
    \/ CalcAdd
    \/ CalcSubtract
    \/ CalcMultiply
    \/ CalcDivide
    \/ CalcReturn

(***************************************************************************)
(* hello-world: main.cpp.  Standard input is the sequence of its           *)
(* characters and the number of them consumed.                             *)
(***************************************************************************)
Chars == {"a", "b", "\n"}
World == <<"W", "o", "r", "l", "d">>

\* std::getline(std::cin, name) from position pos: name is emptied, the
\* characters up to a newline are stored, the newline is consumed and not
\* stored; at the end of the input the extraction stops.
RECURSIVE Getline(_, _, _)
Getline(data, pos, line) ==
    IF pos >= Len(data) THEN [name |-> line, pos |-> pos]
    ELSE IF data[pos + 1] = "\n" THEN [name |-> line, pos |-> pos + 1]
    ELSE Getline(data, pos + 1, Append(line, data[pos + 1]))

\* name.empty() taken for true of every name
EmptyAlways(str) == TRUE

\* std::string::empty
empty(str) == Len(str) = 0

HelloIdle ==
    /\ helloCin = <<>>
    /\ helloName = <<>>
    /\ helloCout = <<>>
    /\ helloPc = "idle"

\* main: std::string name;
HelloInit ==
    /\ helloCin \in {[data |-> d, pos |-> 0] : d \in SeqsUpTo(Chars, MaxLen)}
    /\ helloName = <<>>
    /\ helloCout = <<>>
    /\ helloPc = "prompt"

\* std::cout << "Hello! What's your name? ";
HelloPrompt ==
    /\ prog = "hello" /\ helloPc = "prompt"
    /\ helloCout' = Append(helloCout, <<"Hello! What's your name? ">>)
    /\ helloPc' = "getline"
    /\ UNCHANGED <<helloCin, helloName>>
    /\ helloFrame

\* std::getline(std::cin, name);
HelloGetline ==
    /\ prog = "hello" /\ helloPc = "getline"
    /\ LET r == Getline(helloCin.data, helloCin.pos, <<>>) IN
         /\ helloName' = r.name
         /\ helloCin' = [helloCin EXCEPT !.pos = r.pos]
    /\ helloPc' = "check"
    /\ UNCHANGED helloCout
    /\ helloFrame

\* if (name.empty()) { name = "World"; }
HelloCheck ==
    /\ prog = "hello" /\ helloPc = "check"
    /\ helloName' = IF empty(helloName) THEN World ELSE helloName
    /\ helloPc' = "greet"
    /\ UNCHANGED <<helloCin, helloCout>>
    /\ helloFrame

\* the two lines printed, and return 0;
HelloGreet ==
    /\ prog = "hello" /\ helloPc = "greet"
    /\ helloCout' = helloCout \o
          << <<"Hello, ", helloName, "! Welcome to C++!">>,
             <<"You're using C++ standard: ", "__cplusplus">> >>
    /\ helloPc' = "exit0"
    /\ UNCHANGED <<helloCin, helloName>>
    /\ helloFrame

HelloNext ==
    \/ HelloPrompt
    \/ HelloGetline
    \/ HelloCheck
    \/ HelloGreet

(***************************************************************************)
(* price_calculator.cpp: demonstratePointerArithmetic.  Prices are in      *)
(* hundredths (100.50 is 10050; all are multiples of 0.25, exact in a      *)
(* double, as are their doubles).  A pointer into prices or volumes is the *)
(* offset from the array's first element.                                  *)
(***************************************************************************)
\* const int size = 5;
size == 5

PriceIdle ==
    /\ prices = <<>>
    /\ volumes = <<>>
    /\ slicePtr = 0
    /\ sliceVisited = <<>>
    /\ priceCout = <<>>
    /\ pricePc = "idle"

\* double prices[] = {...}; int volumes[] = {...};
PriceInit ==
    /\ prices = <<10050, 10125, 10200, 10375, 10450>>
    /\ volumes = <<1000, 1500, 2000, 1750, 1200>>
    /\ slicePtr = 0
    /\ sliceVisited = <<>>
    /\ priceCout = <<>>
    /\ pricePc = "original"

\* the element a pointer at offset p of array arr points to
Deref(arr, p) == arr[p + 1]

\* the pairs *(pricePtr + i), *(volumePtr + i) for i = from, from + step, ...
\* while i is in 0 .. size-1
RECURSIVE Pairs(_, _)
Pairs(from, step) ==
    IF from < 0 \/ from >= size THEN <<>>
    ELSE <<<<from, Deref(prices, from), Deref(volumes, from)>>>>
         \o Pairs(from + step, step)

\* "Original arrays": both arrays printed
PriceOriginal ==
    /\ prog = "price" /\ pricePc = "original"
    /\ priceCout' = Append(priceCout, <<"Original arrays", prices, volumes>>)
    /\ pricePc' = "m1"
    /\ UNCHANGED <<prices, volumes, slicePtr, sliceVisited>>
    /\ priceFrame

\* Methods 1 and 2: forward traversals, by offset and by increment
PriceForward ==
    /\ prog = "price" /\ pricePc \in {"m1", "m2"}
    /\ priceCout' = Append(priceCout, <<pricePc, Pairs(0, 1)>>)
    /\ pricePc' = IF pricePc = "m1" THEN "m2" ELSE "m3"
    /\ UNCHANGED <<prices, volumes, slicePtr, sliceVisited>>
    /\ priceFrame

\* Method 3: reverse traversal from prices + size - 1
PriceReverse ==
    /\ prog = "price" /\ pricePc = "m3"
    /\ priceCout' = Append(priceCout, <<"m3", Pairs(size - 1, -1)>>)
    /\ pricePc' = "m4"
    /\ UNCHANGED <<prices, volumes, slicePtr, sliceVisited>>
    /\ priceFrame

\* Method 4: beginPtr = prices, endPtr = prices + size, their difference
PriceBounds ==
    /\ prog = "price" /\ pricePc = "m4"
    /\ LET beginPtr == 0
           endPtr == 0 + size
       IN priceCout' = Append(priceCout, <<"m4", beginPtr, endPtr, endPtr - beginPtr>>)
    /\ pricePc' = "m5"
    /\ UNCHANGED <<prices, volumes, slicePtr, sliceVisited>>
    /\ priceFrame

\* Method 5: every price and volume doubled in place, the arrays printed
PriceDouble ==
    /\ prog = "price" /\ pricePc = "m5"
    /\ prices' = [k \in 1..size |-> prices[k] * 2]
    /\ volumes' = [k \in 1..size |-> volumes[k] * 2]
    /\ priceCout' = Append(priceCout, <<"m5", prices', volumes'>>)
    /\ pricePc' = "m6"
    /\ UNCHANGED <<slicePtr, sliceVisited>>
    /\ priceFrame

\* the loop of Method 6 from i on, maxPricePtr the offset of the maximum so far
RECURSIVE MaxPricePtr(_, _)
MaxPricePtr(idx, maxPtr) ==
    IF idx >= size THEN maxPtr
    ELSE IF Deref(prices, idx) > Deref(prices, maxPtr)
    THEN MaxPricePtr(idx + 1, idx)
    ELSE MaxPricePtr(idx + 1, maxPtr)

\* Method 6: the maximum price and its index; then Method 7 sets
\* sliceStart = prices + 1, sliceEnd = prices + 4 and ptr = sliceStart
PriceMax ==
    /\ prog = "price" /\ pricePc = "m6"
    /\ LET maxPricePtr == MaxPricePtr(1, 0) IN
         priceCout' = Append(priceCout, <<"m6", Deref(prices, maxPricePtr), maxPricePtr - 0>>)
    /\ slicePtr' = 0 + 1
    /\ pricePc' = "m7"
    /\ UNCHANGED <<prices, volumes, sliceVisited>>
    /\ priceFrame

\* double* sliceEnd = prices + 4;
sliceEnd == 0 + 4

\* Method 7, one iteration of for (ptr = sliceStart; ptr <= sliceEnd; ptr++)
PriceSlice ==
    /\ prog = "price" /\ pricePc = "m7"
    /\ slicePtr <= sliceEnd
    /\ priceCout' = Append(priceCout, <<"Slice from index 1 to 3", Deref(prices, slicePtr)>>)
    /\ sliceVisited' = Append(sliceVisited, slicePtr)
    /\ slicePtr' = slicePtr + 1
    /\ UNCHANGED <<prices, volumes, pricePc>>
    /\ priceFrame

\* the loop of Method 7 ends and the function returns
PriceReturn ==
    /\ prog = "price" /\ pricePc = "m7"
    /\ ~(slicePtr <= sliceEnd)
    /\ pricePc' = "done"
    /\ UNCHANGED <<prices, volumes, slicePtr, sliceVisited, priceCout>>
    /\ priceFrame

PriceNext ==
    \/ PriceOriginal
    \/ PriceForward
    \/ PriceReverse
    \/ PriceBounds
    \/ PriceDouble
    \/ PriceMax
    \/ PriceSlice
    \/ PriceReturn

(***************************************************************************)
(* price_calculator.cpp: calculateVWAP and calculateVWAPWithPointers.  A   *)
(* bid is <<price, volume>>, the price a double, the volume an int.  The   *)
(* sums of the model are exact in a double; a quotient is kept as the      *)
(* reduced fraction [k |-> "quot", v |-> <<n, d>>] it rounds.              *)
(***************************************************************************)
\* a + b on doubles
FAdd(a, b) ==
    IF a.k = "nan" \/ b.k = "nan" THEN NaN
    ELSE IF a.k = "inf" /\ b.k = "inf" THEN (IF a.v = b.v THEN a ELSE NaN)
    ELSE IF a.k = "inf" THEN a
    ELSE IF b.k = "inf" THEN b
    ELSE Fin(a.v + b.v)

Sign(n) == IF n > 0 THEN 1 ELSE IF n < 0 THEN -1 ELSE 0

\* a * b on doubles
FMul(a, b) ==
    IF a.k = "nan" \/ b.k = "nan" THEN NaN
    ELSE IF a.k = "inf" \/ b.k = "inf"
    THEN (IF Sign(a.v) * Sign(b.v) = 0 THEN NaN
          ELSE [k |-> "inf", v |-> Sign(a.v) * Sign(b.v)])
    ELSE Fin(a.v * b.v)

Abs(n) == IF n < 0 THEN -n ELSE n

RECURSIVE Gcd(_, _)
Gcd(a, b) == IF b = 0 THEN a ELSE Gcd(b, a % b)

\* a / b on doubles whose zero is +0.0: x/0 is an infinity, 0/0 a NaN
FDiv(a, b) ==
    IF a.k = "nan" \/ b.k = "nan" THEN NaN
    ELSE IF a.k = "inf" /\ b.k = "inf" THEN NaN
    ELSE IF a.k = "inf"
    THEN [k |-> "inf", v |-> IF b.v < 0 THEN -a.v ELSE a.v]
    ELSE IF b.k = "inf" THEN Fin(0)
    ELSE IF b.v = 0
    THEN (IF a.v = 0 THEN NaN ELSE [k |-> "inf", v |-> Sign(a.v)])
    ELSE LET g == Gcd(Abs(a.v), Abs(b.v))
             n == (Sign(b.v) * a.v) \div g
             d == Abs(b.v) \div g
         IN IF d = 1 THEN Fin(n) ELSE [k |-> "quot", v |-> <<n, d>>]

\* the range-for of calculateVWAP over the bids not yet visited
RECURSIVE VwapRangeFor(_, _, _)
VwapRangeFor(rest, totalVolume, totalPriceVolume) ==
    IF rest = <<>> THEN FDiv(totalPriceVolume, totalVolume)
    ELSE LET bid == Head(rest) IN
         VwapRangeFor(Tail(rest),
                      FAdd(totalVolume, Fin(bid[2])),
                      FAdd(totalPriceVolume, FMul(bid[1], Fin(bid[2]))))

\* PriceCalculator::calculateVWAP
calculateVWAP(bids) == VwapRangeFor(bids, Fin(0), Fin(0))

\* an end pointer one element short of the end
EndPtrShort(bids) == 0 + Len(bids) - 1

\* const std::pair<double, int>* endPtr = bids.data() + bids.size();
EndPtr(bids) == 0 + Len(bids)

\* the while (ptr < endPtr) loop of calculateVWAPWithPointers
RECURSIVE VwapWhile(_, _, _, _, _)
VwapWhile(bids, ptr, endPtr, totalVolume, totalPriceVolume) ==
    IF ~(ptr < endPtr) THEN FDiv(totalPriceVolume, totalVolume)
    ELSE VwapWhile(bids, ptr + 1, endPtr,
                   FAdd(totalVolume, Fin(Deref(bids, ptr)[2])),
                   FAdd(totalPriceVolume,
                        FMul(Deref(bids, ptr)[1], Fin(Deref(bids, ptr)[2]))))

\* PriceCalculator::calculateVWAPWithPointers
calculateVWAPWithPointers(bids) ==
    IF empty(bids) THEN Fin(0)
    ELSE VwapWhile(bids, 0, EndPtr(bids), Fin(0), Fin(0))

\* main's sample, and other vectors of bids
BidPrices == {Fin(1), Fin(3), NaN}
BidVolumes == {-1, 0, 2}
VwapInputs ==
    SeqsUpTo(BidPrices \X BidVolumes, MaxLen)
    \cup { << <<Fin(10050), 1000>>, <<Fin(10125), 1500>>, <<Fin(10200), 2000>>,
              <<Fin(10375), 1750>>, <<Fin(10450), 1200>> >> }

VwapIdle ==
    /\ sampleBids = <<>>
    /\ vwap1 = <<>>
    /\ vwap2 = <<>>
    /\ vwapPc = "idle"

\* main: std::vector<std::pair<double, int>> sampleBids = {...};
VwapInit ==
    /\ sampleBids \in VwapInputs
    /\ vwap1 = <<>>
    /\ vwap2 = <<>>
    /\ vwapPc = "vwap1"

\* double vwap1 = calculator.calculateVWAP(sampleBids);
VwapFirst ==
    /\ prog = "vwap" /\ vwapPc = "vwap1"
    /\ vwap1' = <<calculateVWAP(sampleBids)>>
    /\ vwapPc' = "vwap2"
    /\ UNCHANGED <<sampleBids, vwap2>>
    /\ vwapFrame

\* double vwap2 = calculator.calculateVWAPWithPointers(sampleBids);
VwapSecond ==
    /\ prog = "vwap" /\ vwapPc = "vwap2"
    /\ vwap2' = <<calculateVWAPWithPointers(sampleBids)>>
    /\ vwapPc' = "print"
    /\ UNCHANGED <<sampleBids, vwap1>>
    /\ vwapFrame

\* both printed; return 0;
VwapReturn ==
    /\ prog = "vwap" /\ vwapPc = "print"
    /\ vwapPc' = "exit0"
    /\ UNCHANGED <<sampleBids, vwap1, vwap2>>
    /\ vwapFrame

VwapNext ==
    \/ VwapFirst
    \/ VwapSecond
    \/ VwapReturn

(***************************************************************************)
(* basic_markte_data.cpp.  A char is a one-character string, the null      *)
(* character the string "NUL".  rand() is a generator whose state srand    *)
(* sets: the C library's is not part of the program, a small linear        *)
(* congruential one stands for it.                                         *)
(***************************************************************************)
NUL == "NUL"

\* what the 9 chars of a MarketData that was declared and not initialised hold
UninitSymbols ==
    { [k \in 1..9 |-> "?"], [k \in 1..9 |-> NUL], [k \in 1..9 |-> "Z"] }

\* std::strncpy(dest, src, count): the chars of src up to count; when src is
\* shorter, null characters up to count; the chars of dest after count stay
strncpy(dest, src, count) ==
    [k \in 1..Len(dest) |->
        IF k > count THEN dest[k]
        ELSE IF k <= Len(src) THEN src[k]
        ELSE NUL]

\* the string a char buffer holds: its chars before the first null character
RECURSIVE CStr(_)
CStr(buf) ==
    IF buf = <<>> \/ Head(buf) = NUL THEN <<>>
    ELSE <<Head(buf)>> \o CStr(Tail(buf))

\* the generator's next state, which is the value rand() returns
rand(state) == (state * 75 + 74) % 65537

\* MarketDataManager::addMarketData
addMarketData(md, data) == Append(md, data)

\* a timestamp that does not advance with i
timestampFlat(idx) == 1713859200

\* marketData.timestamp = 1713859200 + i;
timestamp(idx) == 1713859200 + idx

MdIdle ==
    /\ marketData = <<>>
    /\ mdI = 0
    /\ mdRand = 0
    /\ mdCout = <<>>
    /\ mdPc = "idle"

\* main: srand(time(nullptr)); MarketDataManager marketDataManager; and
\* populateMarketData is entered: int i = 0
MdInit ==
    /\ marketData = <<>>
    /\ mdI = 0
    /\ mdRand \in 0..MaxSeed
    /\ mdCout = <<>>
    /\ mdPc = "populate"

\* populateMarketData: one iteration of for (int i = 0; i < 10; i++), the
\* local record's symbol holding u before it is written
MdPopulate(u) ==
    /\ prog = "md" /\ mdPc = "populate"
    /\ mdI < 10
    /\ LET sym == [strncpy(u, <<"A", "A", "P", "L">>, 8) EXCEPT ![9] = NUL]
           r1 == rand(mdRand)
           r2 == rand(r1)
           data == [symbol |-> sym, price |-> Fin(r1 % 1000),
                    volume |-> r2 % 1000, timestamp |-> timestamp(mdI)]
       IN /\ marketData' = addMarketData(marketData, data)
          /\ mdRand' = r2
    /\ mdI' = mdI + 1
    /\ UNCHANGED <<mdCout, mdPc>>
    /\ mdFrame

\* the loop of populateMarketData ends
MdPopulateDone ==
    /\ prog = "md" /\ mdPc = "populate"
    /\ ~(mdI < 10)
    /\ mdPc' = "print"
    /\ UNCHANGED <<marketData, mdI, mdRand, mdCout>>
    /\ mdFrame

\* MarketDataManager::printMarketData: one line for each record
MdPrint ==
    /\ prog = "md" /\ mdPc = "print"
    /\ mdCout' = [k \in 1..Len(marketData) |->
                     <<CStr(marketData[k].symbol), marketData[k].price,
                       marketData[k].volume, marketData[k].timestamp>>]
    /\ mdPc' = "highest"
    /\ UNCHANGED <<marketData, mdI, mdRand>>
    /\ mdFrame

\* the loop of findHighestVolume from record k on
RECURSIVE HighestVolume(_, _, _)
HighestVolume(md, k, highestVolume) ==
    IF k > Len(md) THEN highestVolume
    ELSE IF md[k].volume > highestVolume
    THEN HighestVolume(md, k + 1, md[k].volume)
    ELSE HighestVolume(md, k + 1, highestVolume)

\* MarketDataManager::findHighestVolume
MdHighest ==
    /\ prog = "md" /\ mdPc = "highest"
    /\ mdCout' = Append(mdCout, <<"Highest Volume", HighestVolume(marketData, 1, 0)>>)
    /\ mdPc' = "average"
    /\ UNCHANGED <<marketData, mdI, mdRand>>
    /\ mdFrame

\* the loop of findAveragePrice from record k on
RECURSIVE PriceSum(_, _, _)
PriceSum(md, k, averagePrice) ==
    IF k > Len(md) THEN averagePrice
    ELSE PriceSum(md, k + 1, FAdd(averagePrice, md[k].price))

\* MarketDataManager::findAveragePrice, and main's return 0
MdAverage ==
    /\ prog = "md" /\ mdPc = "average"
    /\ mdCout' = Append(mdCout,
          <<"Average Price",
            FDiv(PriceSum(marketData, 1, Fin(0)), Fin(Len(marketData)))>>)
    /\ mdPc' = "exit0"
    /\ UNCHANGED <<marketData, mdI, mdRand>>
    /\ mdFrame

MdNext ==
    \/ \E u \in UninitSymbols : MdPopulate(u)
    \/ MdPopulateDone
    \/ MdPrint
    \/ MdHighest
    \/ MdAverage

(***************************************************************************)
(* The runs                                                                *)
(***************************************************************************)
Programs == {"order", "ctor", "dbg", "fmt", "log", "calc", "hello",
             "price", "vwap", "md"}

Init ==
    /\ prog \in Programs
    /\ IF prog = "order" THEN OrderInit ELSE OrderIdle
    /\ IF prog = "ctor" THEN CtorInit ELSE CtorIdle
    /\ IF prog = "dbg" THEN DbgInit ELSE DbgIdle
    /\ IF prog = "fmt" THEN FmtInit ELSE FmtIdle
    /\ IF prog = "log" THEN LogInit ELSE LogIdle
    /\ IF prog = "calc" THEN CalcInit ELSE CalcIdle
    /\ IF prog = "hello" THEN HelloInit ELSE HelloIdle
    /\ IF prog = "price" THEN PriceInit ELSE PriceIdle
    /\ IF prog = "vwap" THEN VwapInit ELSE VwapIdle
    /\ IF prog = "md" THEN MdInit ELSE MdIdle

Next ==
    \/ OrderNext
    \/ Construct
    \/ DbgNext
    \/ FmtNext
    \/ LogNext
    \/ CalcNext
    \/ HelloNext
    \/ PriceNext
    \/ VwapNext
    \/ MdNext

Spec == Init /\ [][Next]_vars

(***************************************************************************)
(* The claims                                                              *)
(***************************************************************************)
Min(S) == CHOOSE x \in S : \A y \in S : x <= y

\* C1: constructing an Order succeeds if and only if the type is one of
\* MARKET, LIMIT, STOP, price > 0, 1 <= quantity <= 100000 and the symbol has
\* at most 8 characters; for every other input the constructor raises an
\* invalid-argument failure and no Order object exists.
C1_ConstructsIffValid ==
    (prog = "ctor" /\ ctorRes # <<>>) =>
        LET a == ctorArgs
            r == ctorRes[1]
            valid == /\ a[5] \in OrderType
                     /\ FGt(a[4], Fin(0))
                     /\ 1 <= a[3] /\ a[3] <= 100000
                     /\ Len(a[2]) <= 8
        IN  /\ (~r.threw) <=> valid
            /\ r.threw => (r.obj = <<>> /\ r.what # "")
            /\ ~r.threw => Len(r.obj) = 1

C8_GetOrderByIdEarliest ==
    (prog = "order" /\ lastCall.op = "getOrderById") =>
        LET os == lastCall.before
            id == lastCall.arg[1]
            r == lastCall.res
            matches == {i \in 1..Len(os) : os[i].orderId = id}
        IN  /\ matches # {} => (~r.threw /\ r.obj = <<os[Min(matches)]>>)
            /\ matches = {} => (r.threw /\ r.what = "Order not found"
                                /\ r.obj = <<>>)
            /\ orders = os

\* C8's case: two stored orders share the id looked up and differ, and the
\* call has returned
C8_Witness ==
    /\ prog = "order" /\ lastCall.op = "getOrderById"
    /\ ~lastCall.res.threw
    /\ \E i, j \in 1..Len(orders) :
          /\ i < j
          /\ orders[i].orderId = lastCall.arg[1]
          /\ orders[j].orderId = lastCall.arg[1]
          /\ orders[i] # orders[j]

RECURSIVE SumSeq(_)
SumSeq(s) == IF s = <<>> THEN 0 ELSE Head(s) + SumSeq(Tail(s))

\* the lines calculateSum has printed
DbgAdds == SelectSeq(dbgCout, LAMBDA l : l[1] = "Adding")

\* C3: calculateSum iterates while i <= numbers.size(): for every vector, the
\* empty one included, it makes numbers.size() + 1 iterations, at the indices
\* 0 .. size in order, and the last one reads numbers[size], outside
\* 0 .. size-1 (that read yields an arbitrary value, or faults and ends the
\* program in the iteration).  The sum returned is the elements' sum plus the
\* value read outside, so it need not be the elements' sum (C3_Witness).
C3_OneIterationTooMany ==
    prog = "dbg" =>
        LET len == Len(dbgNumbers) IN
        /\ dbgPc = "loop" => dbgI <= len + 1
        /\ dbgPc \in {"loop", "exit0", "crashed"} =>
              /\ Len(DbgAdds) = dbgI
              /\ \A k \in 1..Len(DbgAdds) :
                    /\ DbgAdds[k][3] = k - 1
                    /\ k <= len => DbgAdds[k][2] = dbgNumbers[k]
        /\ dbgPc = "exit0" =>
              /\ Len(DbgAdds) = len + 1
              /\ DbgAdds[len + 1][3] = len
              /\ DbgAdds[len + 1][3] \notin 0..(len - 1)
              /\ dbgSum = SumSeq(dbgNumbers) + DbgAdds[len + 1][2]
        /\ dbgPc = "crashed" => dbgI = len

\* C3's case: calculateSum has returned a sum that is not the elements' sum
C3_Witness ==
    /\ prog = "dbg" /\ dbgPc = "exit0"
    /\ dbgSum # SumSeq(dbgNumbers)
    /\ Len(DbgAdds) = Len(dbgNumbers) + 1

\* how many elements of s equal x
Count(s, x) == Cardinality({k \in 1..Len(s) : s[k] = x})

\* C4: the formatting exercise prints its vector sorted in non-decreasing
\* order, a permutation of the input (duplicates kept); for the input
\* {3,1,4,1,5,9,2,6} it prints exactly 1 1 2 3 4 5 6 9; then it exits with
\* status 0 (the only way the run ends).
C4_SortedPermutation ==
    prog = "fmt" =>
        /\ fmtPc \in {"sort", "print", "exit0"}
        /\ fmtPc = "exit0" =>
              /\ \A k \in 1..(Len(fmtCout) - 1) : fmtCout[k] <= fmtCout[k + 1]
              /\ Len(fmtCout) = Len(fmtInput)
              /\ \A x \in 1..9 : Count(fmtCout, x) = Count(fmtInput, x)
              /\ fmtInput = <<3, 1, 4, 1, 5, 9, 2, 6>>
                    => fmtCout = <<1, 1, 2, 3, 4, 5, 6, 9>>

\* C4's case: the literal vector has been sorted and printed, and main has
\* returned 0
C4_Witness ==
    /\ prog = "fmt" /\ fmtPc = "exit0"
    /\ fmtInput = <<3, 1, 4, 1, 5, 9, 2, 6>>
    /\ fmtCout = <<1, 1, 2, 3, 4, 5, 6, 9>>

\* the rows of the calls of op that returned true, in call order
RECURSIVE RowsOf(_, _)
RowsOf(calls, op) ==
    IF calls = <<>> THEN <<>>
    ELSE (IF Head(calls).op = op /\ Head(calls).ret THEN <<Head(calls).row>> ELSE <<>>)
         \o RowsOf(Tail(calls), op)

FirstNewline(data) ==
    Min({k \in 1..Len(data) : data[k] = "\n"} \cup {Len(data) + 1})

\* C7: the hello-world program reads at most one line of standard input and
\* greets with that line as the name; it substitutes "World" exactly when the
\* line read is empty (an empty line, or the end of the input); for every
\* input it prints the greeting and exits with status 0.
C7_GreetsOneLine ==
    prog = "hello" =>
        LET data == helloCin.data
            nl == FirstNewline(data)
            line == SubSeq(data, 1, nl - 1)
        IN
        /\ helloPc \in {"prompt", "getline", "check", "greet", "exit0"}
        /\ helloCin.pos <= IF nl <= Len(data) THEN nl ELSE Len(data)
        /\ helloPc \in {"greet", "exit0"} =>
              /\ helloCin.pos = IF nl <= Len(data) THEN nl ELSE Len(data)
              /\ line = <<>> => helloName = World
              /\ line # <<>> => helloName = line
        /\ helloPc = "exit0" =>
              /\ Len(helloCout) = 3
              /\ helloCout[2] = <<"Hello, ", helloName, "! Welcome to C++!">>

\* C7's case: the input has a second line, only the first was read, it was
\* not empty and the greeting carries it
C7_Witness ==
    /\ prog = "hello" /\ helloPc = "exit0"
    /\ helloCin.data = <<"a", "\n", "b">>
    /\ helloCin.pos = 2
    /\ helloCout[2] = <<"Hello, ", <<"a">>, "! Welcome to C++!">>

\* C9: the slicing step announced as "Slice from index 1 to 3" visits exactly
\* the elements at indices 1, 2 and 3 of the 5-element price array, and no
\* other index.
C9_SliceVisitsOneToThree ==
    (prog = "price" /\ pricePc = "done") => sliceVisited = <<1, 2, 3>>

\* sum of price * volume and sum of volume over bids with finite prices
RECURSIVE SumPV(_)
SumPV(bids) ==
    IF bids = <<>> THEN 0 ELSE Head(bids)[1].v * Head(bids)[2] + SumPV(Tail(bids))

RECURSIVE SumV(_)
SumV(bids) == IF bids = <<>> THEN 0 ELSE Head(bids)[2] + SumV(Tail(bids))

\* C10: calculateVWAP and calculateVWAPWithPointers compute the same
\* function: on every non-empty list of bids their results are the same
\* value, and when the total volume is not zero (the prices being numbers)
\* that value is sum(price * volume) / sum(volume); they differ only on the
\* empty list, where calculateVWAPWithPointers returns 0.0 and calculateVWAP
\* divides zero by zero (a NaN).
C10_VwapSameFunction ==
    (prog = "vwap" /\ vwapPc \in {"print", "exit0"}) =>
        LET allFinite == \A k \in 1..Len(sampleBids) : sampleBids[k][1].k = "fin" IN
        /\ sampleBids # <<>> => vwap1 = vwap2
        /\ (sampleBids # <<>> /\ allFinite /\ SumV(sampleBids) # 0) =>
              LET pv == SumPV(sampleBids)
                  tv == SumV(sampleBids)
                  \* the result as a fraction n / d, d > 0
                  n == IF vwap1[1].k = "quot" THEN vwap1[1].v[1] ELSE vwap1[1].v
                  d == IF vwap1[1].k = "quot" THEN vwap1[1].v[2] ELSE 1
              IN /\ vwap1[1].k \in {"fin", "quot"}
                 /\ d > 0 /\ tv % d = 0
                 /\ pv = n * (tv \div d)
        /\ sampleBids = <<>> =>
              /\ vwap2 = <<Fin(0)>>
              /\ vwap1 = <<NaN>>
              /\ vwap1 # vwap2

\* C10's case: both functions have been applied to a list of several bids
\* with a non-zero total volume and a quotient that is not an integer
C10_Witness ==
    /\ prog = "vwap" /\ vwapPc = "exit0"
    /\ Len(sampleBids) >= 2
    /\ \A k \in 1..Len(sampleBids) : sampleBids[k][1].k = "fin"
    /\ SumV(sampleBids) # 0
    /\ vwap1[1].k = "quot"
    /\ vwap1 = vwap2

\* C12: every order stored in an OrderProcessingSystem satisfies the
\* constructor's validation bounds (price > 0, 1 <= quantity <= 100000,
\* symbol length <= 8, a valid order type) in every reachable state, after
\* any sequence of Order constructions, addOrder, getOrderById,
\* getOrderBySymbol and executeOrder calls.
C12_StoredOrdersValid ==
    prog = "order" =>
        \A k \in 1..Len(orders) :
            /\ FGt(orders[k].price, Fin(0))
            /\ 1 <= orders[k].quantity /\ orders[k].quantity <= 100000
            /\ Len(orders[k].symbol) <= 8
            /\ orders[k].orderType \in OrderType

\* what C11 says of the records stored so far: there are at most 10, exactly
\* 10 once populateMarketData has returned; record i (from 0) holds "AAPL"
\* null-terminated within its 9 chars, a price and a volume in 0..999 and the
\* timestamp 1713859200 + i, so the timestamps increase strictly
MdRecordsAsPopulated ==
    prog = "md" =>
        /\ Len(marketData) = mdI /\ mdI <= 10
        /\ mdPc # "populate" => Len(marketData) = 10
        /\ \A k \in 1..Len(marketData) :
              LET d == marketData[k] IN
              /\ Len(d.symbol) = 9
              /\ CStr(d.symbol) = <<"A", "A", "P", "L">>
              /\ \E j \in 1..9 : d.symbol[j] = NUL
              /\ d.price.k = "fin" /\ d.price.v \in 0..999
              /\ d.volume \in 0..999
              /\ d.timestamp = 1713859200 + (k - 1)
        /\ \A j, k \in 1..Len(marketData) :
              j < k => marketData[j].timestamp < marketData[k].timestamp

\* what C11 says of a step: the records stored before it are still there,
\* unchanged and at the same places, and at most one record is added after
\* them
MdAppendOnly ==
    /\ Len(marketData') \in {Len(marketData), Len(marketData) + 1}
    /\ \A k \in 1..Len(marketData) : marketData'[k] = marketData[k]

\* C11: populateMarketData adds exactly 10 records to the manager, in order
\* i = 0..9, each with the symbol "AAPL" null-terminated within the 9-char
\* buffer, price and volume in 0..999 and timestamp 1713859200 + i, so the
\* stored timestamps increase strictly in insertion order; addMarketData only
\* appends and no step changes or removes an earlier record.
C11_TenRecordsAppended == [](MdRecordsAsPopulated) /\ [][MdAppendOnly]_vars

\* C11's case: populateMarketData has stored its 10 records, one of them
\* with the largest volume rand() % 1000 can give, and the manager's three
\* reports have run over them
C11_Witness ==
    /\ prog = "md" /\ mdPc = "exit0"
    /\ Len(marketData) = 10
    /\ marketData[10].timestamp = 1713859209
    /\ \E k \in 1..10 : marketData[k].price.v # marketData[1].price.v
    /\ \E k \in 1..10 : marketData[k].volume = 999

====
